---- MODULE Spec2Model ----
(***************************************************************************)
(* EcoTrace backend: identity tokens, the User store, registration/login   *)
(* and the per-user analysis history, at the granularity of the database   *)
(* commits the service methods perform.                                    *)
(*                                                                         *)
(* Modelling conventions                                                   *)
(*   - a token string "prefix_payload_signature" is the record             *)
(*     [prefix, payload_b64, signature]; payload_b64 is the serialised     *)
(*     payload (a 4-tuple), decoded again by DecodePayload;                *)
(*   - SHA-256 and HMAC are collision-free tagged wrappers;                *)
(*   - None is the empty tuple << >>, the empty string "" of a column is   *)
(*     << >> as well (a column holds one or the other, never both);        *)
(*   - random identifiers (uuid4, token_hex) are fresh counters;           *)
(*   - every service method is cut at its db.commit() calls, each call     *)
(*     working in a session of its own on the shared database.             *)
(***************************************************************************)
EXTENDS Integers, Sequences, FiniteSets, TLC

\* ------------------------------------------------------------------ bounds
MaxTokens == 2
MaxUsers == 2
MaxClock == 1
MaxEntries == 1
MaxComparisons == 1
MaxRecorded == 3

\* ------------------------------------------------------- program constants
MinPasswordLengthFive == 6 - 1
MIN_PASSWORD_LENGTH == 6
DEFAULT_LIMIT == 20
COMPARISON_LIMIT == 10
TREND_WINDOW == 5
TOP_CATEGORIES == 5

Procs == {"p1", "p2"}

SECRET_KEY == "secret"
None == << >>
EmptyString == << >>
NoUserId == 0      \* None where a user id is expected
Absent == 0 - 1    \* a payload key that is not present
NoCategory == ""   \* a product without category (None or "")
NoAnalysisType == ""  \* analysis_type=None of a filter

\* ------------------------------------------------------------------ inputs
EmailInputs == {<<"A">>, <<"b">>}
PasswordInputs == {<<1, 2, 3, 4, 5>>, <<1, 2, 3, 4, 5, 6>>}
Salts == {<<7>>}
AnalysisInputs == {[category |-> "A", eco_score |-> 55]}
AnalysisTypeInputs == {"product_search"}
ProductListInputs ==
    {<<[category |-> "A", eco_score |-> 55], [category |-> "B", eco_score |-> 80]>>,
     <<[category |-> "A", eco_score |-> 55], [category |-> "B", eco_score |-> 80],
       [category |-> "A", eco_score |-> 30], [category |-> "B", eco_score |-> 60]>>}

VARIABLES
    users,        \* table users: sequence of rows, in insertion order
    history,      \* table history_entries
    comparisons,  \* table comparison_entries
    clock,        \* time.time() / datetime.utcnow()
    nonce,        \* source of the random part of generated tokens
    tokens,       \* tokens handed out to clients so far
    pc,           \* per caller: position inside the running service method
    loc,          \* per caller: arguments and locals of the running method
    res           \* what the call that has just finished returned or raised

vars == <<users, history, comparisons, clock, nonce, tokens, pc, loc, res>>

\* ------------------------------------------------------------ token codec
LowerChar(c) == IF c = "A" THEN "a" ELSE IF c = "B" THEN "b" ELSE c

Lower(s) == [i \in DOMAIN s |-> LowerChar(s[i])]

EncodePayload(p) == <<p.type, p.user_id, p.created, p.random>>

\* a decoder that loses the user_id key
DecodePayloadWithoutUserId(b) ==
    IF Len(b) = 4
    THEN [type |-> b[1], user_id |-> Absent, created |-> b[3], random |-> b[4]]
    ELSE None

DecodePayload(b) ==
    IF Len(b) = 4
    THEN [type |-> b[1], user_id |-> b[2], created |-> b[3], random |-> b[4]]
    ELSE None

Sign(key, payload_b64) == <<"hmac", key, payload_b64>>

generate_secure_anonymous_token(now, rnd) ==
    LET payload == [type |-> "anonymous", user_id |-> Absent,
                    created |-> now, random |-> rnd]
        payload_b64 == EncodePayload(payload)
    IN  [prefix |-> "anon", payload_b64 |-> payload_b64,
         signature |-> Sign(SECRET_KEY, payload_b64)]

generate_auth_token(user_id, now, rnd) ==
    LET payload == [type |-> "authenticated", user_id |-> user_id,
                    created |-> now, random |-> rnd]
        payload_b64 == EncodePayload(payload)
    IN  [prefix |-> "auth", payload_b64 |-> payload_b64,
         signature |-> Sign(SECRET_KEY, payload_b64)]

\* a validator that checks the signature and never the payload type
ValidateTokenSignatureOnly(token) ==
    IF token.prefix \notin {"anon", "auth"} THEN FALSE
    ELSE IF token.signature # Sign(SECRET_KEY, token.payload_b64) THEN FALSE
    ELSE LET payload == DecodePayload(token.payload_b64)
         IN  IF payload = None THEN FALSE
             ELSE IF token.prefix = "anon"
                  THEN payload.created # Absent /\ payload.random # Absent
                  ELSE /\ payload.user_id # Absent
                       /\ payload.created # Absent
                       /\ payload.random # Absent

validate_token(token) ==
    IF token.prefix \notin {"anon", "auth"} THEN FALSE
    ELSE IF token.signature # Sign(SECRET_KEY, token.payload_b64) THEN FALSE
    ELSE LET payload == DecodePayload(token.payload_b64)
             expected_type == IF token.prefix = "anon" THEN "anonymous"
                              ELSE "authenticated"
         IN  IF payload = None THEN FALSE
             ELSE IF payload.type # expected_type THEN FALSE
             ELSE IF token.prefix = "anon"
                  THEN payload.created # Absent /\ payload.random # Absent
                  ELSE /\ payload.user_id # Absent
                       /\ payload.created # Absent
                       /\ payload.random # Absent

\* the user_id of a well-signed authenticated token, NoUserId otherwise
validate_auth_token(token) ==
    IF token.prefix # "auth" THEN NoUserId
    ELSE IF token.signature # Sign(SECRET_KEY, token.payload_b64) THEN NoUserId
    ELSE LET payload == DecodePayload(token.payload_b64)
         IN  IF payload = None THEN NoUserId
             ELSE IF payload.type # "authenticated" THEN NoUserId
             ELSE IF payload.user_id = Absent THEN NoUserId
             ELSE payload.user_id

\* the payload of a token validate_token accepts, None for any other
extract_token_info(token) ==
    IF ~validate_token(token) THEN None
    ELSE DecodePayload(token.payload_b64)

hash_token_for_storage(token) == <<"sha256", token>>

\* ---------------------------------------------------------- password hash
hash_password(password, salt) == <<salt, <<"sha256", password \o salt>>>>

verify_password(password, stored_hash) ==
    IF Len(stored_hash) # 2 THEN FALSE
    ELSE stored_hash[2] = <<"sha256", password \o stored_hash[1]>>


\* ------------------------------------------------------------- the tables
\* users.id is the primary key; users.token_hash and users.email are
\* declared unique (NULL emails do not take part in the constraint)
UniqueOkEmailOnly(rows) ==
    \A i, j \in DOMAIN rows :
        i # j => /\ rows[i].id # rows[j].id
                 /\ (rows[i].email # None => rows[i].email # rows[j].email)

UniqueOk(rows) ==
    \A i, j \in DOMAIN rows :
        i # j => /\ rows[i].id # rows[j].id
                 /\ rows[i].token_hash # rows[j].token_hash
                 /\ (rows[i].email # None => rows[i].email # rows[j].email)

\* db.query(User).filter(<column> == value).first(): the id of the row,
\* or NoUserId when there is none
UserById(rows, user_id) ==
    IF \E i \in DOMAIN rows : rows[i].id = user_id THEN user_id ELSE NoUserId

UserByEmail(rows, email) ==
    IF \E i \in DOMAIN rows : rows[i].email = email
    THEN rows[CHOOSE i \in DOMAIN rows : rows[i].email = email].id
    ELSE NoUserId

\* a lookup by token hash that never finds a row
UserByTokenHashMissing(rows, token_hash) == NoUserId

UserByTokenHash(rows, token_hash) ==
    IF \E i \in DOMAIN rows : rows[i].token_hash = token_hash
    THEN rows[CHOOSE i \in DOMAIN rows : rows[i].token_hash = token_hash].id
    ELSE NoUserId

\* ids are drawn fresh; rows are never deleted, so row i has id i
Row(rows, user_id) == rows[user_id]

NewUserId == Len(users) + 1

\* ------------------------------------------------------ AuthService reads
\* a resolution that trusts the stored token hash before the token's kind
GetUserByTokenHashFirst(rows, token) ==
    LET by_hash == UserByTokenHash(rows, hash_token_for_storage(token))
        user_id == validate_auth_token(token)
    IN  IF validate_token(token) /\ by_hash # NoUserId THEN by_hash
        ELSE IF user_id # NoUserId THEN UserById(rows, user_id)
        ELSE NoUserId

get_user_by_token(rows, token) ==
    LET user_id == validate_auth_token(token)
        by_id == IF user_id # NoUserId THEN UserById(rows, user_id) ELSE NoUserId
    IN  IF by_id # NoUserId /\ ~Row(rows, by_id).is_anonymous THEN by_id
        ELSE IF validate_token(token)
             THEN LET by_hash == UserByTokenHash(rows, hash_token_for_storage(token))
                  IN  IF by_hash # NoUserId /\ Row(rows, by_hash).is_anonymous
                      THEN by_hash ELSE NoUserId
             ELSE NoUserId

is_authenticated_user(rows, token) ==
    LET user == get_user_by_token(rows, token)
    IN  user # NoUserId /\ ~Row(rows, user).is_anonymous

\* --------------------------------------------------------- what callers send
SwapPrefix(token) ==
    [token EXCEPT !.prefix = IF token.prefix = "anon" THEN "auth" ELSE "anon"]

Tamper(token) ==
    [token EXCEPT !.signature = Sign("guess", token.payload_b64)]

\* tokens nobody was given: a re-signed one and one with the prefix swapped
ForgedTokens == {Tamper(generate_secure_anonymous_token(0, 0)),
                 SwapPrefix(generate_auth_token(1, 0, 0))}

TokenInputs == tokens \cup ForgedTokens

NoRes == [op |-> "none"]
NoLoc == [op |-> "none"]

\* calls in flight that will still insert a user row / draw a token
PendingInserts ==
    Cardinality({p \in Procs : \/ pc[p] = "reg_insert"
                               \/ pc[p] = "goc_commit" /\ loc[p].found = NoUserId})

PendingTokens ==
    Cardinality({p \in Procs : pc[p] \in {"reg_insert", "reg_sethash"}})

RoomForUser == Len(users) + PendingInserts < MaxUsers
RoomForToken == nonce + PendingTokens < MaxTokens

\* the call of p returns: res holds its result until the next step of anyone
\* a call that closes its session on the paths that return and keeps it,
\* with its locals, on the path that raises
CloseOnReturnOnly(locals, result) ==
    IF "raised" \in DOMAIN result /\ result.raised # "none" THEN locals ELSE NoLoc

\* finally: db.close(). The session of a call lives in its locals: the call
\* holds one from the step that opens it (Goto) to the step that ends the
\* call, whether that step returns or raises
Close(locals, result) == NoLoc

Finish(p, result) ==
    /\ pc' = [pc EXCEPT ![p] = "idle"]
    /\ loc' = [loc EXCEPT ![p] = Close(loc[p], result)]
    /\ res' = result

\* a call that takes a single step returns
Answer(result) ==
    /\ res' = result
    /\ UNCHANGED <<pc, loc>>

\* the call of p has committed and goes on
Goto(p, label, locals) ==
    /\ pc' = [pc EXCEPT ![p] = label]
    /\ loc' = [loc EXCEPT ![p] = locals]
    /\ res' = NoRes

Init ==
    /\ users = << >>
    /\ history = << >>
    /\ comparisons = << >>
    /\ clock = 0
    /\ nonce = 0
    /\ tokens = {}
    /\ pc = [p \in Procs |-> "idle"]
    /\ loc = [p \in Procs |-> NoLoc]
    /\ res = NoRes

\* time passes
Tick ==
    /\ res = NoRes
    /\ clock < MaxClock
    /\ clock' = clock + 1
    /\ res' = NoRes
    /\ UNCHANGED <<users, history, comparisons, nonce, tokens, pc, loc>>

\* POST /auth/token
GenerateAnonymousToken ==
    /\ res = NoRes
    /\ RoomForToken
    /\ nonce' = nonce + 1
    /\ tokens' = tokens \cup {generate_secure_anonymous_token(clock, nonce + 1)}
    /\ res' = NoRes
    /\ UNCHANGED <<users, history, comparisons, clock, pc, loc>>

\* the caller takes the result of the call that has just finished
Return ==
    /\ res # NoRes
    /\ res' = NoRes
    /\ UNCHANGED <<users, history, comparisons, clock, nonce, tokens, pc, loc>>

\* ------------------------------ DatabaseHistoryService.get_or_create_user
\* validate_token, then the lookup by token hash
GetOrCreateLookup(p, user_token) ==
    /\ res = NoRes
    /\ pc[p] = "idle"
    /\ RoomForUser
    /\ IF ~validate_token(user_token)
       THEN Finish(p, [op |-> "get_or_create_user", token |-> user_token,
                       raised |-> "ValueError", user |-> NoUserId])
       ELSE Goto(p, "goc_commit",
                 [op |-> "get_or_create_user", token |-> user_token,
                  found |-> UserByTokenHash(users, hash_token_for_storage(user_token))])
    /\ UNCHANGED <<users, history, comparisons, clock, nonce, tokens>>

\* db.add(user); db.commit()  or  user.last_active = utcnow(); db.commit()
GetOrCreateCommit(p) ==
    /\ res = NoRes
    /\ pc[p] = "goc_commit"
    /\ LET user_token == loc[p].token
           user == [id |-> NewUserId,
                    token_hash |-> hash_token_for_storage(user_token),
                    is_anonymous |-> TRUE,
                    email |-> None,
                    password_hash |-> None,
                    last_active |-> clock]
       IN  IF loc[p].found = NoUserId
           THEN IF UniqueOk(Append(users, user))
                THEN /\ users' = Append(users, user)
                     /\ Finish(p, [op |-> "get_or_create_user", token |-> user_token,
                                   raised |-> "none", user |-> user.id])
                ELSE \* IntegrityError leaves through the finally block
                     /\ UNCHANGED users
                     /\ Finish(p, [op |-> "get_or_create_user", token |-> user_token,
                                   raised |-> "IntegrityError", user |-> NoUserId])
           ELSE /\ users' = [users EXCEPT ![loc[p].found].last_active = clock]
                /\ Finish(p, [op |-> "get_or_create_user", token |-> user_token,
                              raised |-> "none", user |-> loc[p].found])
    /\ UNCHANGED <<history, comparisons, clock, nonce, tokens>>

\* ------------------------------------------------ AuthService.register_user
\* the duplicate-email query and the password length check
RegisterCheck(p, email, password) ==
    /\ res = NoRes
    /\ pc[p] = "idle"
    /\ RoomForUser
    /\ RoomForToken
    /\ IF UserByEmail(users, Lower(email)) # NoUserId
       THEN Finish(p, [op |-> "register_user", email |-> email, password |-> password,
                       ok |-> FALSE, message |-> "Email already registered",
                       token |-> None, user |-> NoUserId])
       ELSE IF Len(password) < MIN_PASSWORD_LENGTH
       THEN Finish(p, [op |-> "register_user", email |-> email, password |-> password,
                       ok |-> FALSE, message |-> "Password must be at least 6 characters",
                       token |-> None, user |-> NoUserId])
       ELSE Goto(p, "reg_insert",
                 [op |-> "register_user", email |-> email, password |-> password,
                  user_id |-> NoUserId])
    /\ UNCHANGED <<users, history, comparisons, clock, nonce, tokens>>

\* db.add(user) with token_hash=""; db.commit()
RegisterInsert(p) ==
    /\ res = NoRes
    /\ pc[p] = "reg_insert"
    /\ \E salt \in Salts :
        LET user == [id |-> NewUserId,
                     token_hash |-> EmptyString,
                     is_anonymous |-> FALSE,
                     email |-> Lower(loc[p].email),
                     password_hash |-> hash_password(loc[p].password, salt),
                      last_active |-> clock]
        IN  IF UniqueOk(Append(users, user))
            THEN /\ users' = Append(users, user)
                 /\ Goto(p, "reg_sethash", [loc[p] EXCEPT !.user_id = user.id])
            ELSE \* except Exception: db.rollback()
                 /\ UNCHANGED users
                 /\ Finish(p, [op |-> "register_user", email |-> loc[p].email,
                               password |-> loc[p].password,
                               ok |-> FALSE, message |-> "Registration failed",
                               token |-> None, user |-> NoUserId])
    /\ UNCHANGED <<history, comparisons, clock, nonce, tokens>>

\* generate_auth_token; user.token_hash = hash(token); db.commit()
RegisterSetHash(p) ==
    /\ res = NoRes
    /\ pc[p] = "reg_sethash"
    /\ LET user_id == loc[p].user_id
           auth_token == generate_auth_token(user_id, clock, nonce + 1)
           updated == [users EXCEPT ![user_id].token_hash =
                                        hash_token_for_storage(auth_token)]
       IN  /\ nonce' = nonce + 1
           /\ IF UniqueOk(updated)
              THEN /\ users' = updated
                   /\ tokens' = tokens \cup {auth_token}
                   /\ Finish(p, [op |-> "register_user", email |-> loc[p].email,
                                 password |-> loc[p].password,
                                 ok |-> TRUE, message |-> "Account created successfully",
                                 token |-> auth_token, user |-> user_id])
              ELSE /\ UNCHANGED <<users, tokens>>
                   /\ Finish(p, [op |-> "register_user", email |-> loc[p].email,
                                 password |-> loc[p].password,
                                 ok |-> FALSE, message |-> "Registration failed",
                                 token |-> None, user |-> NoUserId])
    /\ UNCHANGED <<history, comparisons, clock>>

\* --------------------------------------------------- AuthService.login_user
\* the messages of the two early returns of login_user
UnknownEmailMessage == "Invalid email or password"

WrongPasswordMessageDistinct == "Incorrect password"

WrongPasswordMessage == "Invalid email or password"

LoginFailure(email, password, message) ==
    [op |-> "login_user", email |-> email, password |-> password,
     ok |-> FALSE, message |-> message, token |-> None, user |-> NoUserId, at |-> clock]

LoginUser(email, password) ==
    /\ res = NoRes
    /\ RoomForToken
    /\ LET user == UserByEmail(users, Lower(email))
       IN  IF user = NoUserId \/ Row(users, user).is_anonymous
           THEN /\ Answer(LoginFailure(email, password, UnknownEmailMessage))
                /\ UNCHANGED <<users, nonce, tokens>>
           ELSE IF ~verify_password(password, Row(users, user).password_hash)
           THEN /\ Answer(LoginFailure(email, password, WrongPasswordMessage))
                /\ UNCHANGED <<users, nonce, tokens>>
           ELSE LET auth_token == generate_auth_token(user, clock, nonce + 1)
                    \* last_active is assigned the value the row already has
                    updated == [users EXCEPT
                                  ![user].token_hash = hash_token_for_storage(auth_token),
                                  ![user].last_active = Row(users, user).last_active]
                IN  /\ nonce' = nonce + 1
                    /\ IF UniqueOk(updated)
                       THEN /\ users' = updated
                            /\ tokens' = tokens \cup {auth_token}
                            /\ Answer([op |-> "login_user", email |-> email,
                                          password |-> password, ok |-> TRUE,
                                          message |-> "Login successful",
                                          token |-> auth_token, user |-> user,
                                          at |-> clock])
                       ELSE /\ UNCHANGED <<users, tokens>>
                            /\ Answer(LoginFailure(email, password, "Login failed"))
    /\ UNCHANGED <<history, comparisons, clock>>

\* ----------------------------------------------- sequences and orderings
RECURSIVE Perms(_)
Perms(S) ==
    IF S = {} THEN {<< >>}
    ELSE UNION {{<<x>> \o rest : rest \in Perms(S \ {x})} : x \in S}

\* order_by(desc(timestamp)): the orders the database may answer in; rows
\* with equal timestamps come in an order the query does not fix
OrdersDesc(rows, idxs) ==
    {o \in Perms(idxs) :
        \A a, b \in DOMAIN o : a < b => rows[o[a]].timestamp >= rows[o[b]].timestamp}

\* .offset(offset).limit(limit)
Page(o, offset, limit) ==
    SubSeq(o, offset + 1, IF offset + limit < Len(o) THEN offset + limit ELSE Len(o))

RECURSIVE Sum(_)
Sum(s) == IF s = << >> THEN 0 ELSE Head(s) + Sum(Tail(s))

RECURSIVE Largest(_)
Largest(s) ==
    IF Len(s) = 1 THEN s[1]
    ELSE LET m == Largest(Tail(s)) IN IF s[1] >= m THEN s[1] ELSE m

RECURSIVE Smallest(_)
Smallest(s) ==
    IF Len(s) = 1 THEN s[1]
    ELSE LET m == Smallest(Tail(s)) IN IF s[1] <= m THEN s[1] ELSE m

Min2(a, b) == IF a <= b THEN a ELSE b

\* statistics.mean as the exact fraction sum/count
Mean(s) == [num |-> Sum(s), den |-> Len(s)]
Zero == [num |-> 0, den |-> 1]

\* --------------------------------------------- DatabaseHistoryService reads
NoFilter == [given |-> FALSE]

\* HistoryFilter() with its field defaults; an optional field that is not
\* supplied holds "", 0 or Absent
HistoryFilter ==
    [given |-> TRUE, analysis_type |-> NoAnalysisType, category |-> NoCategory,
     min_eco_score |-> 0, max_eco_score |-> 0, date_from |-> Absent,
     date_to |-> Absent, limit |-> 50, offset |-> 0]

HistoryFilterInputs ==
    {NoFilter, [HistoryFilter EXCEPT !.date_from = 1, !.offset = 1]}

EmptyHistoryResponse ==
    [raised |-> "none", entries |-> << >>, comparisons |-> << >>,
     total_count |-> 0, has_more |-> FALSE]

\* ComparisonHistoryEntry(products=..., min_items=2, max_items=3)
ComparisonLoads(comp) == Len(comp.products) >= 2 /\ Len(comp.products) <= 3

\* the entries query of get_history after its filters
HistoryMatches(rows, user_id, filters) ==
    {i \in DOMAIN rows :
        /\ rows[i].user_id = user_id
        /\ filters.given =>
            /\ filters.analysis_type # NoAnalysisType =>
                    rows[i].analysis_type = filters.analysis_type
            /\ filters.date_from # Absent => rows[i].timestamp >= filters.date_from
            /\ filters.date_to # Absent => rows[i].timestamp <= filters.date_to}

ComparisonMatches(rows, user_id, filters) ==
    {i \in DOMAIN rows :
        /\ rows[i].user_id = user_id
        /\ filters.given =>
            /\ filters.date_from # Absent => rows[i].timestamp >= filters.date_from
            /\ filters.date_to # Absent => rows[i].timestamp <= filters.date_to}

\* every answer get_history may give
get_history(urows, hrows, crows, user_token, filters) ==
    IF ~is_authenticated_user(urows, user_token) THEN {EmptyHistoryResponse}
    ELSE
    LET user == get_user_by_token(urows, user_token)
        matching == HistoryMatches(hrows, user, filters)
        total_count == Cardinality(matching)
        limit == IF filters.given /\ filters.limit # 0 THEN filters.limit
                 ELSE DEFAULT_LIMIT
        offset == IF filters.given /\ filters.offset # 0 THEN filters.offset ELSE 0
    IN  {IF \E k \in DOMAIN co : ~ComparisonLoads(crows[co[k]])
         THEN [EmptyHistoryResponse EXCEPT !.raised = "ValidationError"]
         ELSE [raised |-> "none",
               entries |-> [k \in DOMAIN eo |-> hrows[eo[k]].id],
               comparisons |-> [k \in DOMAIN co |-> crows[co[k]].id],
               total_count |-> total_count,
               has_more |-> (offset + Len(eo)) < total_count] :
            eo \in {Page(o, offset, limit) : o \in OrdersDesc(hrows, matching)},
            co \in {Page(o, 0, COMPARISON_LIMIT) :
                      o \in OrdersDesc(crows, ComparisonMatches(crows, user, filters))}}

\* JourneyStats() and EcoJourney() with their field defaults
DefaultJourneyStats ==
    [total_analyses |-> 0, total_comparisons |-> 0, average_eco_score |-> Zero,
     best_eco_score |-> 0, worst_eco_score |-> 100, improvement_trend |-> Zero,
     favorite_categories |-> << >>, days_active |-> 0]

\* a journey without analyses, comparisons or milestones
EmptyJourney ==
    [raised |-> "none", stats |-> DefaultJourneyStats, milestones |-> << >>]

\* EcoJourney(): stats is declared without a default (history.py:64), so the
\* constructor called without arguments raises pydantic's ValidationError
EcoJourneyNoArgs == [EmptyJourney EXCEPT !.raised = "ValidationError"]

IsAnyEntry(entry) == TRUE

IsRegular(entry) == ~entry.is_comparison_analysis

\* Counter(cats).most_common(n): by falling count, equal counts in the order
\* of first occurrence
most_common(cats, n) ==
    LET keys == {cats[i] : i \in DOMAIN cats}
        Count(c) == Cardinality({i \in DOMAIN cats : cats[i] = c})
        First(c) == CHOOSE i \in DOMAIN cats :
                        cats[i] = c /\ \A j \in 1..(i - 1) : cats[j] # c
        ranked == CHOOSE o \in Perms(keys) :
                    \A a, b \in DOMAIN o :
                        a < b => \/ Count(o[a]) > Count(o[b])
                                 \/ /\ Count(o[a]) = Count(o[b])
                                    /\ First(o[a]) < First(o[b])
    IN  SubSeq(ranked, 1, Min2(n, Len(ranked)))

HasCategory(entry) == entry.analysis.category # NoCategory

calculate_journey_stats(entries, comps) ==
    IF entries = << >> THEN DefaultJourneyStats
    ELSE
    LET regular_entries == SelectSeq(entries, IsRegular)
        eco_scores == [k \in DOMAIN regular_entries |->
                            regular_entries[k].analysis.eco_score]
        n == Len(eco_scores)
        window == Min2(TREND_WINDOW, n \div 2)
        recent_scores == SubSeq(eco_scores, 1, window)
        early_scores == SubSeq(eco_scores, n - window + 1, n)
        with_category == SelectSeq(regular_entries, HasCategory)
        categories == [k \in DOMAIN with_category |->
                            with_category[k].analysis.category]
        timestamps == [k \in DOMAIN entries |-> entries[k].timestamp]
    IN  IF regular_entries = << >> THEN DefaultJourneyStats
        ELSE [total_analyses |-> n,
              total_comparisons |-> Len(comps),
              average_eco_score |-> Mean(eco_scores),
              best_eco_score |-> Largest(eco_scores),
              worst_eco_score |-> Smallest(eco_scores),
              improvement_trend |->
                  IF n >= 2 /\ recent_scores # << >> /\ early_scores # << >>
                  THEN [num |-> Sum(recent_scores) - Sum(early_scores),
                        den |-> window]
                  ELSE Zero,
              favorite_categories |-> most_common(categories, TOP_CATEGORIES),
              days_active |-> (Largest(timestamps) - Smallest(timestamps)) + 1]

\* HistoryService._generate_milestones of the in-memory service: one badge
\* per threshold the statistics meet, in the order of the checks
generate_milestones(stats) ==
    LET When(cond, badge) == IF cond THEN <<badge>> ELSE << >>
    IN  When(stats.total_analyses >= 1, "First Analysis Complete!")
        \o When(stats.total_analyses >= 10, "10 Products Analyzed!")
        \o When(stats.total_analyses >= 50, "Eco Explorer - 50 Analyses!")
        \o When(stats.total_analyses >= 100, "Eco Champion - 100 Analyses!")
        \o When(stats.best_eco_score >= 90, "Found an Eco Superstar (90+ score)!")
        \o When(stats.average_eco_score.num >= 70 * stats.average_eco_score.den,
                "Eco-Conscious Choices (70+ avg score)!")
        \o When(stats.improvement_trend.num > 10 * stats.improvement_trend.den,
                "Great Progress - Improving choices!")
        \o When(Len(stats.favorite_categories) >= 5, "Category Explorer - 5+ categories!")
        \o When(stats.days_active >= 7, "Week-long Journey!")
        \o When(stats.days_active >= 30, "Month-long Commitment!")

\* a query that leaves out the filter on user_id
OwnedByAnyone(rows, user_id) == rows

\* db.query(...).filter(<table>.user_id == user.id).all()
OwnedBy(rows, user_id) ==
    LET Mine(r) == r.user_id = user_id IN SelectSeq(rows, Mine)

get_journey(urows, hrows, crows, user_token) ==
    IF ~is_authenticated_user(urows, user_token) THEN EcoJourneyNoArgs
    ELSE
    LET user == get_user_by_token(urows, user_token)
        entries == OwnedBy(hrows, user)
        comps == OwnedBy(crows, user)
    IN  IF entries = << >> THEN EcoJourneyNoArgs
        ELSE IF \E k \in DOMAIN comps : ~ComparisonLoads(comps[k])
        THEN [EmptyJourney EXCEPT !.raised = "ValidationError"]
        ELSE \* EcoJourney(stats, category_breakdown, timeline): milestones
             \* keeps its default, the empty list
             [raised |-> "none", stats |-> calculate_journey_stats(entries, comps),
              milestones |-> << >>]

\* ---------------------------------------- DatabaseHistoryService writes
PendingEntries == Cardinality({p \in Procs : pc[p] = "save_write"})
PendingComparisons == Cardinality({p \in Procs : pc[p] = "cmp_write"})

\* db.merge(user): every loaded column of the detached object replaces the
\* value of the row it is merged into
Merge(rows, user) == [rows EXCEPT ![user.id] = user]

\* a merge that takes the unloaded collections of the detached user for
\* empty ones and removes the rows of the user as orphans
CascadeDeleteOrphan(rows, user) ==
    SelectSeq(rows, LAMBDA r : r.user_id # user.id)

\* what db.merge(user) does to the rows of history_entries and
\* comparison_entries: the relationships of the detached user were never
\* loaded, so the cascade "all, delete-orphan" finds nothing to merge or delete
Cascade(rows, user) == rows

\* is_authenticated_user and get_user_by_token, both before the session opens
SaveAnalysisRead(p, user_token, analysis, analysis_type, is_comparison_analysis) ==
    /\ res = NoRes
    /\ pc[p] = "idle"
    /\ Len(history) + PendingEntries < MaxEntries
    /\ IF ~is_authenticated_user(users, user_token)
       THEN Finish(p, [op |-> "save_analysis", token |-> user_token,
                       raised |-> "none", id |-> 0])
       ELSE Goto(p, "save_write",
                 [op |-> "save_analysis", token |-> user_token,
                  user |-> Row(users, get_user_by_token(users, user_token)),
                  analysis |-> analysis, analysis_type |-> analysis_type,
                  is_comparison_analysis |-> is_comparison_analysis])
    /\ UNCHANGED <<users, history, comparisons, clock, nonce, tokens>>

\* user.last_active = utcnow(); db.merge(user); db.add(entry); db.commit()
SaveAnalysisWrite(p) ==
    /\ res = NoRes
    /\ pc[p] = "save_write"
    /\ LET user == [loc[p].user EXCEPT !.last_active = clock]
           entry == [id |-> Len(history) + 1,
                     user_id |-> user.id,
                     timestamp |-> clock,
                     analysis_type |-> loc[p].analysis_type,
                     analysis |-> loc[p].analysis,
                     is_comparison_analysis |-> loc[p].is_comparison_analysis]
       IN  IF UniqueOk(Merge(users, user))
           THEN /\ users' = Merge(users, user)
                /\ history' = Append(Cascade(history, user), entry)
                /\ comparisons' = Cascade(comparisons, user)
                /\ Finish(p, [op |-> "save_analysis", token |-> loc[p].token,
                              raised |-> "none", id |-> entry.id])
           ELSE /\ UNCHANGED <<users, history, comparisons>>
                /\ Finish(p, [op |-> "save_analysis", token |-> loc[p].token,
                              raised |-> "IntegrityError", id |-> 0])
    /\ UNCHANGED <<clock, nonce, tokens>>

SaveComparisonRead(p, user_token, products) ==
    /\ res = NoRes
    /\ pc[p] = "idle"
    /\ Len(comparisons) + PendingComparisons < MaxComparisons
    /\ IF ~is_authenticated_user(users, user_token)
       THEN Finish(p, [op |-> "save_comparison", token |-> user_token,
                       raised |-> "none", id |-> 0])
       ELSE Goto(p, "cmp_write",
                 [op |-> "save_comparison", token |-> user_token,
                  user |-> Row(users, get_user_by_token(users, user_token)),
                  products |-> products])
    /\ UNCHANGED <<users, history, comparisons, clock, nonce, tokens>>

SaveComparisonWrite(p) ==
    /\ res = NoRes
    /\ pc[p] = "cmp_write"
    /\ LET user == [loc[p].user EXCEPT !.last_active = clock]
           entry == [id |-> Len(comparisons) + 1,
                     user_id |-> user.id,
                     timestamp |-> clock,
                     products |-> loc[p].products]
       IN  IF UniqueOk(Merge(users, user))
           THEN /\ users' = Merge(users, user)
                /\ comparisons' = Append(Cascade(comparisons, user), entry)
                /\ history' = Cascade(history, user)
                /\ Finish(p, [op |-> "save_comparison", token |-> loc[p].token,
                              raised |-> "none", id |-> entry.id])
           ELSE /\ UNCHANGED <<users, history, comparisons>>
                /\ Finish(p, [op |-> "save_comparison", token |-> loc[p].token,
                              raised |-> "IntegrityError", id |-> 0])
    /\ UNCHANGED <<clock, nonce, tokens>>

GetHistory(user_token, filters) ==
    /\ res = NoRes
    /\ \E response \in get_history(users, history, comparisons, user_token, filters) :
        Answer([op |-> "get_history", token |-> user_token, filters |-> filters,
                response |-> response])
    /\ UNCHANGED <<users, history, comparisons, clock, nonce, tokens>>

GetJourney(user_token) ==
    /\ res = NoRes
    /\ Answer([op |-> "get_journey", token |-> user_token,
                  response |-> get_journey(users, history, comparisons, user_token)])
    /\ UNCHANGED <<users, history, comparisons, clock, nonce, tokens>>

\* ------------------------------------------- AuthService.get_user_by_token
\* a resolution that refreshes last_active of the user it finds, as
\* get_or_create_user does
GetUserByTokenTouching(token) ==
    /\ res = NoRes
    /\ LET user == get_user_by_token(users, token)
       IN  /\ Answer([op |-> "get_user_by_token", token |-> token, user |-> user])
           /\ users' = IF user = NoUserId THEN users
                       ELSE [users EXCEPT ![user].last_active = clock]
    /\ UNCHANGED <<history, comparisons, clock, nonce, tokens>>

GetUserByToken(token) ==
    /\ res = NoRes
    /\ Answer([op |-> "get_user_by_token", token |-> token,
                  user |-> get_user_by_token(users, token)])
    /\ UNCHANGED <<users, history, comparisons, clock, nonce, tokens>>

IsAuthenticatedUser(token) ==
    /\ res = NoRes
    /\ Answer([op |-> "is_authenticated_user", token |-> token,
                  value |-> is_authenticated_user(users, token)])
    /\ UNCHANGED <<users, history, comparisons, clock, nonce, tokens>>

Next ==
    \/ Tick
    \/ GenerateAnonymousToken
    \/ Return
    \/ \E p \in Procs, t \in TokenInputs : GetOrCreateLookup(p, t)
    \/ \E p \in Procs : GetOrCreateCommit(p)
    \/ \E p \in Procs, e \in EmailInputs, w \in PasswordInputs : RegisterCheck(p, e, w)
    \/ \E p \in Procs : RegisterInsert(p)
    \/ \E p \in Procs : RegisterSetHash(p)
    \/ \E e \in EmailInputs, w \in PasswordInputs : LoginUser(e, w)
    \/ \E t \in TokenInputs : GetUserByToken(t)
    \/ \E t \in TokenInputs : IsAuthenticatedUser(t)
    \/ \E p \in Procs, t \in TokenInputs, a \in AnalysisInputs,
          ty \in AnalysisTypeInputs, c \in BOOLEAN : SaveAnalysisRead(p, t, a, ty, c)
    \/ \E p \in Procs : SaveAnalysisWrite(p)
    \/ \E p \in Procs, t \in TokenInputs, pr \in ProductListInputs :
          SaveComparisonRead(p, t, pr)
    \/ \E p \in Procs : SaveComparisonWrite(p)
    \/ \E t \in TokenInputs, f \in HistoryFilterInputs : GetHistory(t, f)
    \/ \E t \in TokenInputs : GetJourney(t)

Spec == Init /\ [][Next]_vars

\* The account operations of auth_service.py and get_or_create_user, called
\* by two concurrent requests while time passes; the history tables stay as
\* Init leaves them.
NextAuth ==
    \/ Tick
    \/ GenerateAnonymousToken
    \/ Return
    \/ \E p \in Procs, t \in TokenInputs : GetOrCreateLookup(p, t)
    \/ \E p \in Procs : GetOrCreateCommit(p)
    \/ \E p \in Procs, e \in EmailInputs, w \in PasswordInputs : RegisterCheck(p, e, w)
    \/ \E p \in Procs : RegisterInsert(p)
    \/ \E p \in Procs : RegisterSetHash(p)
    \/ \E e \in EmailInputs, w \in PasswordInputs : LoginUser(e, w)
    \/ \E t \in TokenInputs : GetUserByToken(t)
    \/ \E t \in TokenInputs : IsAuthenticatedUser(t)

SpecAuth == Init /\ [][NextAuth]_vars

\* The history operations of database_history_service.py, called by two
\* concurrent requests on users that register or are created on the way, all
\* within one clock value: every timestamp and last_active is the same.
NextHistory ==
    \/ GenerateAnonymousToken
    \/ Return
    \/ \E p \in Procs, t \in TokenInputs : GetOrCreateLookup(p, t)
    \/ \E p \in Procs : GetOrCreateCommit(p)
    \/ \E p \in Procs, e \in EmailInputs, w \in PasswordInputs : RegisterCheck(p, e, w)
    \/ \E p \in Procs : RegisterInsert(p)
    \/ \E p \in Procs : RegisterSetHash(p)
    \/ \E p \in Procs, t \in TokenInputs, a \in AnalysisInputs,
          ty \in AnalysisTypeInputs, c \in BOOLEAN : SaveAnalysisRead(p, t, a, ty, c)
    \/ \E p \in Procs : SaveAnalysisWrite(p)
    \/ \E p \in Procs, t \in TokenInputs, pr \in ProductListInputs :
          SaveComparisonRead(p, t, pr)
    \/ \E p \in Procs : SaveComparisonWrite(p)
    \/ \E t \in TokenInputs, f \in HistoryFilterInputs : GetHistory(t, f)
    \/ \E t \in TokenInputs : GetJourney(t)

SpecHistory == Init /\ [][NextHistory]_vars

\* Every operation of the two services, one call at a time and all within
\* one clock value: register, login, get_or_create_user, the two saves, the
\* reads.
NextSequential ==
    \/ GenerateAnonymousToken
    \/ Return
    \/ \E t \in TokenInputs : GetOrCreateLookup("p1", t)
    \/ GetOrCreateCommit("p1")
    \/ \E e \in EmailInputs, w \in PasswordInputs : RegisterCheck("p1", e, w)
    \/ RegisterInsert("p1")
    \/ RegisterSetHash("p1")
    \/ \E e \in EmailInputs, w \in PasswordInputs :
          pc["p1"] = "idle" /\ LoginUser(e, w)
    \/ \E t \in TokenInputs : pc["p1"] = "idle" /\ GetUserByToken(t)
    \/ \E t \in TokenInputs : pc["p1"] = "idle" /\ IsAuthenticatedUser(t)
    \/ \E t \in TokenInputs, a \in AnalysisInputs, ty \in AnalysisTypeInputs,
          c \in BOOLEAN : SaveAnalysisRead("p1", t, a, ty, c)
    \/ SaveAnalysisWrite("p1")
    \/ \E t \in TokenInputs, pr \in ProductListInputs : SaveComparisonRead("p1", t, pr)
    \/ SaveComparisonWrite("p1")
    \/ \E t \in TokenInputs, f \in HistoryFilterInputs :
          pc["p1"] = "idle" /\ GetHistory(t, f)
    \/ \E t \in TokenInputs : pc["p1"] = "idle" /\ GetJourney(t)

SpecSequential == Init /\ [][NextSequential]_vars

\* ------------------------------------------------- the queries on a store
\* the users table as register_user("A", ...) followed by
\* register_user("b", ...) leave it, and the tokens the two calls returned
RegisteredRow(id, email) ==
    [id |-> id,
     token_hash |-> hash_token_for_storage(generate_auth_token(id, 0, id)),
     is_anonymous |-> FALSE,
     email |-> Lower(email),
     password_hash |-> hash_password(<<1, 2, 3, 4, 5, 6>>, <<7>>),
     last_active |-> 0]

RegisteredUsers == <<RegisteredRow(1, <<"A">>), RegisteredRow(2, <<"b">>)>>

RegisteredTokens == {generate_auth_token(1, 0, 1), generate_auth_token(2, 0, 2)}

\* what save_analysis was called with, call by call
RecordedInputs ==
    {[user_id |-> 1, analysis_type |-> "product_search",
      analysis |-> [category |-> "A", eco_score |-> 30], is_comparison_analysis |-> FALSE],
     [user_id |-> 1, analysis_type |-> "barcode_scan",
      analysis |-> [category |-> "B", eco_score |-> 55], is_comparison_analysis |-> FALSE],
     [user_id |-> 1, analysis_type |-> "product_search",
      analysis |-> [category |-> "A", eco_score |-> 80], is_comparison_analysis |-> FALSE],
     [user_id |-> 1, analysis_type |-> "product_search",
      analysis |-> [category |-> "A", eco_score |-> 80], is_comparison_analysis |-> TRUE],
     [user_id |-> 2, analysis_type |-> "product_search",
      analysis |-> [category |-> "B", eco_score |-> 55], is_comparison_analysis |-> FALSE]}

\* the clock values of n calls made one after the other
TimeLines(n) ==
    {ts \in [1..n -> 0..MaxClock] : \A i \in 1..(n - 1) : ts[i] <= ts[i + 1]}

\* the history_entries table after the calls
Recorded(calls, ts) ==
    [k \in DOMAIN calls |->
        [id |-> k,
         user_id |-> calls[k].user_id,
         timestamp |-> ts[k],
         analysis_type |-> calls[k].analysis_type,
         analysis |-> calls[k].analysis,
         is_comparison_analysis |-> calls[k].is_comparison_analysis]]

\* five product searches of user 1, one per clock value
ExampleScores == <<40, 60, 80, 90, 50>>

ExampleHistory ==
    [k \in DOMAIN ExampleScores |->
        [id |-> k, user_id |-> 1, timestamp |-> k - 1,
         analysis_type |-> "product_search",
         analysis |-> [category |-> "A", eco_score |-> ExampleScores[k]],
         is_comparison_analysis |-> FALSE]]

\* the same followed by an analysis made for a comparison
ExampleWithComparison ==
    Append(ExampleHistory,
           [id |-> Len(ExampleScores) + 1, user_id |-> 1,
            timestamp |-> Len(ExampleScores),
            analysis_type |-> "product_search",
            analysis |-> [category |-> "B", eco_score |-> 95],
            is_comparison_analysis |-> TRUE])

HistoryStores ==
    {ExampleHistory, ExampleWithComparison} \cup
    UNION {{Recorded(calls, ts) : calls \in [1..n -> RecordedInputs], ts \in TimeLines(n)} :
              n \in 0..MaxRecorded}

\* the comparison_entries table after save_comparison calls of user 1
ComparisonStores ==
    UNION {{[k \in DOMAIN lists |->
                [id |-> k, user_id |-> 1, timestamp |-> 0, products |-> lists[k]]] :
              lists \in [1..n -> ProductListInputs]} : n \in 0..MaxComparisons}

QueryFilterInputs ==
    {NoFilter,
     HistoryFilter,
     [HistoryFilter EXCEPT !.min_eco_score = 50],
     [HistoryFilter EXCEPT !.max_eco_score = 55],
     [HistoryFilter EXCEPT !.category = "A"],
     [HistoryFilter EXCEPT !.analysis_type = "barcode_scan"],
     [HistoryFilter EXCEPT !.date_from = 1],
     [HistoryFilter EXCEPT !.date_to = 0],
     [HistoryFilter EXCEPT !.limit = 1, !.offset = 1],
     [HistoryFilter EXCEPT !.limit = 2]}

\* the users table after the saves: each save sets last_active of its user
\* to its own timestamp
LastActive(hrows, crows, user_id) ==
    Largest(<<0>> \o [k \in DOMAIN hrows |->
                        IF hrows[k].user_id = user_id THEN hrows[k].timestamp ELSE 0]
                 \o [k \in DOMAIN crows |->
                        IF crows[k].user_id = user_id THEN crows[k].timestamp ELSE 0])

ActiveUsers(hrows, crows) ==
    [i \in DOMAIN RegisteredUsers |->
        [RegisteredUsers[i] EXCEPT !.last_active = LastActive(hrows, crows, i)]]

InitQuery ==
    /\ history \in HistoryStores
    /\ comparisons \in ComparisonStores
    /\ users = ActiveUsers(history, comparisons)
    /\ clock = IF history = << >> THEN 0 ELSE history[Len(history)].timestamp
    /\ nonce = 2
    /\ tokens = RegisteredTokens
    /\ pc = [p \in Procs |-> "idle"]
    /\ loc = [p \in Procs |-> NoLoc]
    /\ res = NoRes

NextQuery ==
    \/ Return
    \/ \E t \in tokens, f \in QueryFilterInputs : GetHistory(t, f)
    \/ \E t \in tokens : GetJourney(t)
    \/ \E t \in TokenInputs : GetUserByToken(t)
    \/ \E t \in TokenInputs : IsAuthenticatedUser(t)

SpecQuery == InitQuery /\ [][NextQuery]_vars

\* ------------------------------------------------- the endpoints of main.py
\* a request without x-user-token header
NoHeader == << >>

HeaderInputs == {NoHeader} \cup tokens \cup ForgedTokens

\* if not user_token or not validate_token(user_token): the endpoint goes on
\* with a token it generates
Minted(header) == ~(header # NoHeader /\ validate_token(header))

UserTokenOf(header) ==
    IF Minted(header) THEN generate_secure_anonymous_token(clock, nonce + 1)
    ELSE header

\* what the services outside the model answer: the analyzer returns an
\* analysis or raises, the barcode service finds a barcode / a product or
\* returns None, the database accepts a commit or raises
AnalyzerInputs == {"ok", "error"}
LookupInputs == {"found", "none"}
QueryTypeInputs == {"name", "url"}

\* save_analysis as one call: what it leaves in the tables and what it
\* returns or raises
save_analysis(user_token, analysis, analysis_type, is_comparison_analysis, commit_ok) ==
    IF ~is_authenticated_user(users, user_token)
    THEN [users |-> users, history |-> history, raised |-> "none", id |-> 0]
    ELSE LET found == Row(users, get_user_by_token(users, user_token))
             user == [found EXCEPT !.last_active = clock]
             entry == [id |-> Len(history) + 1,
                       user_id |-> user.id,
                       timestamp |-> clock,
                       analysis_type |-> analysis_type,
                       analysis |-> analysis,
                       is_comparison_analysis |-> is_comparison_analysis]
         IN  IF commit_ok
             THEN [users |-> Merge(users, user), history |-> Append(history, entry),
                   raised |-> "none", id |-> entry.id]
             ELSE [users |-> users, history |-> history,
                   raised |-> "OperationalError", id |-> 0]

save_comparison(user_token, products, commit_ok) ==
    IF ~is_authenticated_user(users, user_token)
    THEN [users |-> users, comparisons |-> comparisons, raised |-> "none", id |-> 0]
    ELSE LET found == Row(users, get_user_by_token(users, user_token))
             user == [found EXCEPT !.last_active = clock]
             entry == [id |-> Len(comparisons) + 1,
                       user_id |-> user.id,
                       timestamp |-> clock,
                       products |-> products]
         IN  IF commit_ok
             THEN [users |-> Merge(users, user),
                   comparisons |-> Append(comparisons, entry),
                   raised |-> "none", id |-> entry.id]
             ELSE [users |-> users, comparisons |-> comparisons,
                   raised |-> "OperationalError", id |-> 0]

\* the endpoint answers; a generated token is used up
Respond(header, response) ==
    /\ Minted(header) => RoomForToken
    /\ nonce' = IF Minted(header) THEN nonce + 1 ELSE nonce
    /\ res' = response
    /\ UNCHANGED <<clock, tokens, pc, loc>>

\* POST /analyze/product
AnalyzeProduct(header, query_type, analyzer, is_comparison_analysis, commit_ok) ==
    /\ res = NoRes
    /\ Len(history) < MaxEntries
    /\ \E analysis \in AnalysisInputs :
        LET user_token == UserTokenOf(header)
            analysis_type == IF query_type = "url" THEN "url_analysis"
                             ELSE "product_search"
            saved == save_analysis(user_token, analysis, analysis_type,
                                   is_comparison_analysis, commit_ok)
            call == [op |-> "analyze_product", header |-> header,
                     user_token |-> user_token, analyzer |-> analyzer,
                     lookup |-> "found", saved |-> "none", status |-> 500,
                     analysis |-> None]
        IN  IF analyzer = "error"
            THEN /\ Respond(header, call)
                 /\ UNCHANGED <<users, history, comparisons>>
            ELSE \* the try around save_analysis logs what it raises
                 /\ users' = saved.users
                 /\ history' = saved.history
                 /\ Respond(header, [call EXCEPT !.saved = saved.raised,
                                                 !.status = 200,
                                                 !.analysis = analysis])
                 /\ UNCHANGED comparisons

\* POST /analyze/barcode
AnalyzeBarcode(header, lookup, analyzer, commit_ok) ==
    /\ res = NoRes
    /\ Len(history) < MaxEntries
    /\ \E analysis \in AnalysisInputs :
        LET user_token == UserTokenOf(header)
            saved == save_analysis(user_token, analysis, "barcode_scan", FALSE, commit_ok)
            call == [op |-> "analyze_barcode", header |-> header,
                     user_token |-> user_token, analyzer |-> analyzer,
                     lookup |-> lookup, saved |-> "none", status |-> 500,
                     analysis |-> None]
        IN  IF lookup = "none" \/ analyzer = "error"
            THEN \* the HTTPException(404) too is caught by except Exception
                 /\ Respond(header, call)
                 /\ UNCHANGED <<users, history, comparisons>>
            ELSE IF saved.raised # "none"
            THEN /\ Respond(header, [call EXCEPT !.saved = saved.raised])
                 /\ UNCHANGED <<users, history, comparisons>>
            ELSE /\ users' = saved.users
                 /\ history' = saved.history
                 /\ Respond(header, [call EXCEPT !.status = 200, !.analysis = analysis])
                 /\ UNCHANGED comparisons

\* POST /analyze/image
AnalyzeBarcodeImage(header, barcode, lookup, analyzer, commit_ok) ==
    /\ res = NoRes
    /\ Len(history) < MaxEntries
    /\ \E analysis \in AnalysisInputs :
        LET user_token == UserTokenOf(header)
            saved == save_analysis(user_token, analysis, "barcode_scan", FALSE, commit_ok)
            call == [op |-> "analyze_barcode_image", header |-> header,
                     user_token |-> user_token, analyzer |-> analyzer,
                     lookup |-> IF barcode = "none" THEN "none" ELSE lookup,
                     saved |-> "none", status |-> 500, analysis |-> None]
        IN  IF barcode = "none"
            THEN /\ Respond(header, [call EXCEPT !.status = 400])
                 /\ UNCHANGED <<users, history, comparisons>>
            ELSE IF lookup = "none"
            THEN /\ Respond(header, [call EXCEPT !.status = 404])
                 /\ UNCHANGED <<users, history, comparisons>>
            ELSE IF analyzer = "error"
            THEN /\ Respond(header, call)
                 /\ UNCHANGED <<users, history, comparisons>>
            ELSE IF saved.raised # "none"
            THEN /\ Respond(header, [call EXCEPT !.saved = saved.raised])
                 /\ UNCHANGED <<users, history, comparisons>>
            ELSE /\ users' = saved.users
                 /\ history' = saved.history
                 /\ Respond(header, [call EXCEPT !.status = 200, !.analysis = analysis])
                 /\ UNCHANGED comparisons


\* GET /history: the query parameters as the HistoryFilter they are put into
AnalysisTypes == {"product_search", "barcode_scan", "url_analysis", "comparison"}

HistoryQueryInputs ==
    {HistoryFilter,
     [HistoryFilter EXCEPT !.analysis_type = "bogus"],
     [HistoryFilter EXCEPT !.limit = 101]}

\* AnalysisType(analysis_type) and the Field bounds of HistoryFilter
ValidQuery(q) ==
    /\ q.analysis_type \in AnalysisTypes \cup {NoAnalysisType}
    /\ q.min_eco_score \in 0..100
    /\ q.max_eco_score \in 0..100
    /\ q.limit \in 1..100
    /\ q.offset >= 0

GetAnalysisHistory(header, q) ==
    /\ res = NoRes
    /\ LET user_token == UserTokenOf(header)
           call == [op |-> "get_analysis_history", header |-> header,
                    user_token |-> user_token, query |-> q, status |-> 500,
                    response |-> EmptyHistoryResponse]
       IN  IF ~ValidQuery(q)
           THEN \* the HTTPException(400) and the ValidationError of
                \* HistoryFilter are caught by except Exception
                Respond(header, call)
           ELSE \E response \in get_history(users, history, comparisons, user_token, q) :
                    IF response.raised # "none"
                    THEN Respond(header, [call EXCEPT !.response = response])
                    ELSE Respond(header, [call EXCEPT !.status = 200,
                                                      !.response = response])
    /\ UNCHANGED <<users, history, comparisons>>

\* GET /journey
GetEcoJourney(header) ==
    /\ res = NoRes
    /\ LET user_token == UserTokenOf(header)
           response == get_journey(users, history, comparisons, user_token)
           call == [op |-> "get_eco_journey", header |-> header,
                    user_token |-> user_token, status |-> 500,
                    response |-> response]
       IN  IF response.raised # "none"
           THEN Respond(header, call)
           ELSE Respond(header, [call EXCEPT !.status = 200])
    /\ UNCHANGED <<users, history, comparisons>>

\* POST /history/comparison
ComparisonRequestInputs ==
    ProductListInputs \cup {<<[category |-> "A", eco_score |-> 55]>>}

SaveComparison(header, products, commit_ok) ==
    /\ res = NoRes
    /\ Len(comparisons) < MaxComparisons
    /\ LET user_token == UserTokenOf(header)
           saved == save_comparison(user_token, products, commit_ok)
           call == [op |-> "save_comparison", header |-> header,
                    user_token |-> user_token, products |-> products,
                    saved |-> "none", status |-> 500, comparison_id |-> 0]
       IN  IF Len(products) < 2
           THEN \* the HTTPException(400) is caught by except Exception
                /\ Respond(header, call)
                /\ UNCHANGED <<users, history, comparisons>>
           ELSE IF saved.raised # "none"
           THEN /\ Respond(header, [call EXCEPT !.saved = saved.raised])
                /\ UNCHANGED <<users, history, comparisons>>
           ELSE /\ users' = saved.users
                /\ comparisons' = saved.comparisons
                /\ Respond(header, [call EXCEPT !.status = 200,
                                                !.comparison_id = saved.id])
                /\ UNCHANGED history

\* requests served one at a time; accounts come from register_user
NextApi ==
    \/ GenerateAnonymousToken
    \/ Return
    \/ \E e \in EmailInputs, w \in PasswordInputs : RegisterCheck("p1", e, w)
    \/ RegisterInsert("p1")
    \/ RegisterSetHash("p1")
    \/ \E h \in HeaderInputs, q \in QueryTypeInputs, a \in AnalyzerInputs,
          c \in BOOLEAN, ok \in BOOLEAN : AnalyzeProduct(h, q, a, c, ok)
    \/ \E h \in HeaderInputs, l \in LookupInputs, a \in AnalyzerInputs,
          ok \in BOOLEAN : AnalyzeBarcode(h, l, a, ok)
    \/ \E h \in HeaderInputs, b \in LookupInputs, l \in LookupInputs,
          a \in AnalyzerInputs, ok \in BOOLEAN : AnalyzeBarcodeImage(h, b, l, a, ok)
    \/ \E h \in HeaderInputs, q \in HistoryQueryInputs : GetAnalysisHistory(h, q)
    \/ \E h \in HeaderInputs : GetEcoJourney(h)
    \/ \E h \in HeaderInputs, pr \in ComparisonRequestInputs, ok \in BOOLEAN :
          SaveComparison(h, pr, ok)

SpecApi == Init /\ [][NextApi]_vars


\* ------------------------------------------------ the token functions alone
\* what a client may present: the tokens handed out, each of them with the
\* other prefix or with a signature under a guessed key, and the forged ones
PresentedTokens ==
    TokenInputs \cup {SwapPrefix(t) : t \in tokens} \cup {Tamper(t) : t \in tokens}

GenerateSecureAnonymousToken ==
    /\ res = NoRes
    /\ RoomForToken
    /\ LET token == generate_secure_anonymous_token(clock, nonce + 1)
       IN  /\ tokens' = tokens \cup {token}
           /\ res' = [op |-> "generate_secure_anonymous_token", token |-> token,
                      payload |-> [type |-> "anonymous", user_id |-> Absent,
                                   created |-> clock, random |-> nonce + 1]]
    /\ nonce' = nonce + 1
    /\ UNCHANGED <<users, history, comparisons, clock, pc, loc>>

GenerateAuthToken(user_id) ==
    /\ res = NoRes
    /\ RoomForToken
    /\ LET token == generate_auth_token(user_id, clock, nonce + 1)
       IN  /\ tokens' = tokens \cup {token}
           /\ res' = [op |-> "generate_auth_token", token |-> token,
                      payload |-> [type |-> "authenticated", user_id |-> user_id,
                                   created |-> clock, random |-> nonce + 1]]
    /\ nonce' = nonce + 1
    /\ UNCHANGED <<users, history, comparisons, clock, pc, loc>>

ValidateToken(token) ==
    /\ res = NoRes
    /\ Answer([op |-> "validate_token", token |-> token,
               value |-> validate_token(token)])
    /\ UNCHANGED <<users, history, comparisons, clock, nonce, tokens>>

ExtractTokenInfo(token) ==
    /\ res = NoRes
    /\ Answer([op |-> "extract_token_info", token |-> token,
               info |-> extract_token_info(token)])
    /\ UNCHANGED <<users, history, comparisons, clock, nonce, tokens>>

NextToken ==
    \/ Tick
    \/ Return
    \/ GenerateSecureAnonymousToken
    \/ \E u \in 1..MaxUsers : GenerateAuthToken(u)
    \/ \E t \in PresentedTokens : ValidateToken(t)
    \/ \E t \in PresentedTokens : ExtractTokenInfo(t)

SpecToken == Init /\ [][NextToken]_vars


\* ================================================================ claims
IsAuthToken(t) == validate_auth_token(t) # NoUserId

\* C1: under every interleaving of get_or_create_user, register_user and
\* login_user the users table never holds two rows with the same token_hash.
C1_TokenHashUnique ==
    \A i, j \in DOMAIN users : i # j => users[i].token_hash # users[j].token_hash

\* two get_or_create_user calls raced on one new token: the insert of the
\* second was refused and the table holds a single row for the token
C1_Witness ==
    /\ res.op = "get_or_create_user"
    /\ res.raised = "IntegrityError"
    /\ Cardinality({i \in DOMAIN users :
            users[i].token_hash = hash_token_for_storage(res.token)}) = 1

\* C2: a get_or_create_user call with a valid anonymous token never ends in an
\* error: when its insert meets the row another call has just created it
\* returns that row.
C2_RaceLoserRefetches ==
    (res.op = "get_or_create_user" /\ validate_token(res.token)
        /\ res.token.prefix = "anon")
    => /\ res.raised = "none"
       /\ res.user # NoUserId
       /\ Row(users, res.user).token_hash = hash_token_for_storage(res.token)

\* C3: once a later authenticated token has been issued to a user by
\* login_user, no earlier authenticated token of that user resolves to the
\* user or counts as authenticated.
C3_LoginInvalidatesOldTokens ==
    \A old, new \in tokens :
        (/\ IsAuthToken(old) /\ IsAuthToken(new)
         /\ validate_auth_token(old) = validate_auth_token(new)
         /\ DecodePayload(old.payload_b64).random < DecodePayload(new.payload_b64).random)
        => /\ get_user_by_token(users, old) # validate_auth_token(old)
           /\ ~is_authenticated_user(users, old)

\* C4: when login_user succeeds at clock value t the stored last_active of the
\* user equals t.
C4_LoginRefreshesLastActive ==
    (res.op = "login_user" /\ res.ok) => Row(users, res.user).last_active = res.at

\* the credentials of a login_user call do not name a registered account
BadCredentials(rows, email, password) ==
    LET user == UserByEmail(rows, Lower(email))
    IN  \/ user = NoUserId
        \/ Row(rows, user).is_anonymous
        \/ ~verify_password(password, Row(rows, user).password_hash)

\* C5: login_user answers an unknown email, an anonymous account's email and a
\* wrong password with one and the same result (False, the same message, no
\* token) and changes no user row.
C5_LoginFailuresIndistinguishable ==
    [][(res'.op = "login_user" /\ BadCredentials(users, res'.email, res'.password))
        => /\ res'.ok = FALSE
           /\ res'.message = "Invalid email or password"
           /\ res'.token = None
           /\ users' = users]_vars

\* a wrong password was given for the email of a registered account
C5_Witness ==
    /\ res.op = "login_user"
    /\ ~res.ok
    /\ UserByEmail(users, Lower(res.email)) # NoUserId
    /\ ~verify_password(res.password,
                        Row(users, UserByEmail(users, Lower(res.email))).password_hash)

\* the arguments of a register_user call are to be rejected
Rejectable(rows, email, password) ==
    \/ \E i \in DOMAIN rows : rows[i].email = Lower(email)
    \/ Len(password) < 6

\* C6: register_user called with an email some row already has (after case
\* normalisation) or with a password shorter than 6 returns at once with
\* ok = False and no token, and leaves the users table as it was.
C6_RegisterRejects ==
    [][/\ \A p \in Procs :
            (pc[p] = "idle" /\ pc'[p] = "reg_insert")
            => ~Rejectable(users, loc'[p].email, loc'[p].password)
       /\ (res'.op = "register_user" /\ pc' = pc
                /\ Rejectable(users, res'.email, res'.password))
            => /\ res'.ok = FALSE
               /\ res'.token = None
               /\ users' = users]_vars

\* an email was refused that differs from the stored one only by case
C6_Witness ==
    /\ res.op = "register_user"
    /\ ~res.ok
    /\ \E i \in DOMAIN users :
            users[i].email = Lower(res.email) /\ users[i].email # res.email

\* C7: a register_user call with an email nobody else holds and a password of
\* at least 6 characters creates one non-anonymous user with the lower-cased
\* email and returns a token whose hash is stored, that validates, and that
\* resolves to the new user.
C7_RegisterCreatesUser ==
    [][(res'.op = "register_user" /\ pc' # pc)
        => \/ /\ res'.ok
              /\ Len(users') = Len(users)
              /\ res'.user \in DOMAIN users'
              /\ ~Row(users', res'.user).is_anonymous
              /\ Row(users', res'.user).email = Lower(res'.email)
              /\ Row(users', res'.user).token_hash = hash_token_for_storage(res'.token)
              /\ validate_token(res'.token)
              /\ get_user_by_token(users', res'.token) = res'.user
              /\ is_authenticated_user(users', res'.token)
           \/ /\ ~res'.ok
              /\ \E i \in DOMAIN users : users[i].email = Lower(res'.email)]_vars

\* C8: in every committed state each non-anonymous row carries the hash of an
\* authenticated token issued for that user, never a placeholder.
C8_NoPlaceholderHash ==
    \A i \in DOMAIN users :
        ~users[i].is_anonymous
        => \E t \in tokens : /\ validate_auth_token(t) = users[i].id
                             /\ users[i].token_hash = hash_token_for_storage(t)

\* the token of a call resolves to a registered user
Registered(rows, token) ==
    LET user == get_user_by_token(rows, token)
    IN  user # NoUserId /\ ~Row(rows, user).is_anonymous

\* some page of the unfiltered history of the token shows the entry
Retrievable(urows, hrows, crows, token, id) ==
    \E offset \in 0..Len(hrows) :
        \A response \in get_history(urows, hrows, crows, token,
                                    [HistoryFilter EXCEPT !.limit = DEFAULT_LIMIT,
                                                          !.offset = offset]) :
            \E k \in DOMAIN response.entries : response.entries[k] = id

\* C9: save_analysis and save_comparison called with a token that does not
\* resolve to a registered user return None and change no table;
\* save_analysis called with a registered user's token returns an id and
\* get_history of that user then shows the entry.
C9_HistoryGating ==
    [][/\ (res'.op \in {"save_analysis", "save_comparison"}
                /\ ~Registered(users, res'.token))
            => /\ res'.raised = "none"
               /\ res'.id = 0
               /\ UNCHANGED <<users, history, comparisons>>
       /\ (res'.op = "save_analysis" /\ Registered(users, res'.token))
            => /\ res'.raised = "none"
               /\ res'.id # 0
               /\ Retrievable(users', history', comparisons', res'.token, res'.id)]_vars

\* C10: get_history and get_journey called with a token that resolves to an
\* anonymous user or to no user return the empty response (no entries, no
\* comparisons, total_count 0, has_more false; the empty journey), not an
\* error, whatever the tables hold.
C10_AnonymousReadsEmpty ==
    (res.op \in {"get_history", "get_journey"} /\ ~Registered(users, res.token))
    => \/ res.op = "get_history" /\ res.response = EmptyHistoryResponse
       \/ res.op = "get_journey" /\ res.response = EmptyJourney

\* ------------------------------------------------------ claims on queries
\* the entries of a user that meet every condition a filter supplies
Satisfying(hrows, user_id, f) ==
    {i \in DOMAIN hrows :
        /\ hrows[i].user_id = user_id
        /\ f.given =>
            /\ f.analysis_type # NoAnalysisType => hrows[i].analysis_type = f.analysis_type
            /\ f.category # NoCategory => hrows[i].analysis.category = f.category
            /\ f.min_eco_score # 0 => hrows[i].analysis.eco_score >= f.min_eco_score
            /\ f.max_eco_score # 0 => hrows[i].analysis.eco_score <= f.max_eco_score
            /\ f.date_from # Absent => hrows[i].timestamp >= f.date_from
            /\ f.date_to # Absent => hrows[i].timestamp <= f.date_to}

Ids(s) == {s[k] : k \in DOMAIN s}

\* the page a query asks for
LimitOf(f) == IF f.given THEN f.limit ELSE DEFAULT_LIMIT
OffsetOf(f) == IF f.given THEN f.offset ELSE 0

\* a get_history call of a registered user has returned a response
HistoryReturned ==
    /\ res.op = "get_history"
    /\ Registered(users, res.token)
    /\ res.response.raised = "none"

\* C11: get_history returns only entries of the caller that satisfy every
\* supplied filter condition at once (analysis type, category, minimum and
\* maximum eco score, timestamp bounds), all of them when the page is large
\* enough, and total_count counts exactly the matching entries.
C11_FiltersCompose ==
    HistoryReturned =>
        LET want == Satisfying(history, get_user_by_token(users, res.token), res.filters)
        IN  /\ res.response.total_count = Cardinality(want)
            /\ Ids(res.response.entries) \subseteq {history[i].id : i \in want}
            /\ OffsetOf(res.filters) = 0 /\ Cardinality(want) <= LimitOf(res.filters)
                    => Ids(res.response.entries) = {history[i].id : i \in want}

\* C12: for a registered user get_history with offset o and limit l returns
\* the entries at positions o .. o+l-1 of the matching entries ordered
\* newest first, never more than 100 of them, with total_count the number of
\* matching entries and has_more true exactly when o + returned < total_count.
C12_Pagination ==
    (res.op = "get_history" /\ Registered(users, res.token)) =>
        LET want == Satisfying(history, get_user_by_token(users, res.token), res.filters)
            returned == res.response.entries
        IN  /\ res.response.raised = "none"
            /\ \E o \in OrdersDesc(history, want) :
                    returned = [k \in DOMAIN Page(o, OffsetOf(res.filters),
                                                  LimitOf(res.filters)) |->
                                   history[Page(o, OffsetOf(res.filters),
                                                LimitOf(res.filters))[k]].id]
            /\ Len(returned) <= 100
            /\ res.response.total_count = Cardinality(want)
            /\ res.response.has_more <=>
                    OffsetOf(res.filters) + Len(returned) < res.response.total_count

\* a get_journey call of a registered user has returned a journey
JourneyReturned ==
    /\ res.op = "get_journey"
    /\ Registered(users, res.token)
    /\ res.response.raised = "none"

\* the scores of the entries of a user that are not flagged
\* is_comparison_analysis, oldest first
UnflaggedScores(hrows, user_id) ==
    LET Counts(r) == r.user_id = user_id /\ ~r.is_comparison_analysis
        counted == SelectSeq(hrows, Counts)
    IN  [k \in DOMAIN counted |-> counted[k].analysis.eco_score]

\* C13: the journey statistics are computed over the entries that are not
\* flagged is_comparison_analysis only: total_analyses is their number and
\* average, best and worst eco score are the mean, maximum and minimum of
\* their scores (the defaults 0, 0 and 100 when there is none), so flagged
\* entries never change the four values.
C13_StatsSkipComparisonAnalyses ==
    JourneyReturned =>
        LET scores == UnflaggedScores(history, get_user_by_token(users, res.token))
            stats == res.response.stats
        IN  /\ stats.total_analyses = Len(scores)
            /\ scores # << >> =>
                /\ stats.average_eco_score.num * Len(scores)
                        = Sum(scores) * stats.average_eco_score.den
                /\ \E k \in DOMAIN scores : stats.best_eco_score = scores[k]
                /\ \A k \in DOMAIN scores : stats.best_eco_score >= scores[k]
                /\ \E k \in DOMAIN scores : stats.worst_eco_score = scores[k]
                /\ \A k \in DOMAIN scores : stats.worst_eco_score <= scores[k]
            /\ scores = << >> =>
                /\ stats.average_eco_score = DefaultJourneyStats.average_eco_score
                /\ stats.best_eco_score = DefaultJourneyStats.best_eco_score
                /\ stats.worst_eco_score = DefaultJourneyStats.worst_eco_score

\* the journey of the user with unflagged scores 40, 60, 80, 90, 50 and a
\* flagged 95: five analyses, average 64, best 90, worst 40
C13_Witness ==
    /\ JourneyReturned
    /\ history = ExampleWithComparison
    /\ res.response.stats.total_analyses = 5
    /\ res.response.stats.average_eco_score.num
            = 64 * res.response.stats.average_eco_score.den
    /\ res.response.stats.best_eco_score = 90
    /\ res.response.stats.worst_eco_score = 40

\* C14: the journey returned for a registered user has total_comparisons
\* equal to the number of comparison entries the user owns, also when the
\* user has only flagged history entries.
C14_TotalComparisons ==
    JourneyReturned =>
        res.response.stats.total_comparisons
            = Len(OwnedBy(comparisons, get_user_by_token(users, res.token)))

\* C15: with s1..sn the scores of the user's unflagged entries, oldest
\* first, and k = min(5, n div 2), improvement_trend is the mean of the k most
\* recent scores minus the mean of the k earliest ones, and 0 when n < 2.
C15_ImprovementTrend ==
    JourneyReturned =>
        LET scores == UnflaggedScores(history, get_user_by_token(users, res.token))
            n == Len(scores)
            k == Min2(5, n \div 2)
            trend == res.response.stats.improvement_trend
        IN  IF n < 2 THEN trend.num = 0
            ELSE trend.num * k
                    = (Sum(SubSeq(scores, n - k + 1, n)) - Sum(SubSeq(scores, 1, k)))
                        * trend.den

\* C16: the journey returned for a registered user carries exactly the
\* milestones whose thresholds its statistics meet (first analysis, 10/50/100
\* analyses, best score >= 90, average >= 70, trend > 10, 5 categories, 7 and
\* 30 days active).
C16_Milestones ==
    JourneyReturned =>
        res.response.milestones = generate_milestones(res.response.stats)

\* ---------------------------------------------------- claims on endpoints
AnalysisEndpoints == {"analyze_product", "analyze_barcode", "analyze_barcode_image"}

TokenEndpoints ==
    AnalysisEndpoints \cup {"get_analysis_history", "get_eco_journey", "save_comparison"}

\* nothing but the token stands in the way of the request
RequestInOrder ==
    CASE res.op \in AnalysisEndpoints -> res.analyzer = "ok" /\ res.lookup = "found"
      [] res.op = "get_analysis_history" -> ValidQuery(res.query)
      [] res.op = "get_eco_journey" -> TRUE
      [] res.op = "save_comparison" -> Len(res.products) >= 2

\* C17: every endpoint that takes a user token serves a request whose token
\* is missing or fails validate_token under a freshly generated anonymous
\* token that passes validate_token, and does not reject the request on
\* account of the token.
C17_MissingTokenServed ==
    (res.op \in TokenEndpoints /\ Minted(res.header)) =>
        /\ res.user_token.prefix = "anon"
        /\ validate_token(res.user_token)
        /\ res.user_token \notin tokens
        /\ RequestInOrder => res.status = 200

\* C18: when the analysis of an analysis endpoint (product, barcode, image)
\* succeeds and the save_analysis call that follows raises, the caller still
\* receives the analysis with status 200.
C18_WriteFailureKeepsAnalysis ==
    (/\ res.op \in AnalysisEndpoints
     /\ res.analyzer = "ok"
     /\ res.lookup = "found"
     /\ res.saved # "none")
    => res.status = 200 /\ res.analysis # None

WellSigned(token) == token.signature = Sign(SECRET_KEY, token.payload_b64)

\* the prefix says one kind and the signed payload the other
KindConfused(token) ==
    /\ WellSigned(token)
    /\ DecodePayload(token.payload_b64) # None
    /\ \/ /\ token.prefix = "auth"
          /\ DecodePayload(token.payload_b64).type = "anonymous"
       \/ /\ token.prefix = "anon"
          /\ DecodePayload(token.payload_b64).type = "authenticated"

\* C20: validate_token rejects a token whose prefix is auth while its
\* correctly signed payload says anonymous, or whose prefix is anon while the
\* payload says authenticated, and every token whose signature is not the
\* keyed digest of its payload segment.
C20_KindConfusionRejected ==
    (/\ res.op = "validate_token"
     /\ KindConfused(res.token) \/ ~WellSigned(res.token))
    => res.value = FALSE

\* a token that was handed out, presented with only its prefix swapped
C20_Witness ==
    /\ res.op = "validate_token"
    /\ KindConfused(res.token)
    /\ SwapPrefix(res.token) \in tokens
    /\ res.value = FALSE

\* ------------------------------------------- claims on get_or_create_user
\* the get_or_create_user call of p does not overlap another call with the
\* same token: nothing changed the row of the token since p looked it up and
\* no other call with the token is in flight
Sequential(p) ==
    /\ loc[p].found = UserByTokenHash(users, hash_token_for_storage(loc[p].token))
    /\ \A q \in Procs \ {p} :
            ~(pc[q] = "goc_commit" /\ loc[q].token = loc[p].token)

RowsOfToken(rows, token) ==
    {i \in DOMAIN rows : rows[i].token_hash = hash_token_for_storage(token)}

C22_ResolveMatchesKind ==
    \A t \in TokenInputs :
        LET u == get_user_by_token(users, t)
        IN  /\ u # NoUserId
                => /\ validate_token(t)
                   /\ \/ /\ t.prefix = "auth"
                         /\ ~Row(users, u).is_anonymous
                         /\ u = DecodePayload(t.payload_b64).user_id
                      \/ /\ t.prefix = "anon"
                         /\ Row(users, u).is_anonymous
                         /\ Row(users, u).token_hash = hash_token_for_storage(t)
            /\ (res.op = "get_user_by_token" /\ res.token = t) => res.user = u

\* an auth token that a later login superseded and for which
\* get_or_create_user stored an anonymous row still resolved to its
\* registered user
C22_Witness ==
    /\ res.op = "get_user_by_token"
    /\ res.token.prefix = "auth"
    /\ res.user # NoUserId
    /\ ~Row(users, res.user).is_anonymous
    /\ \E i \in DOMAIN users :
            /\ users[i].is_anonymous
            /\ users[i].token_hash = hash_token_for_storage(res.token)

\* ------------------------------------------------- claims on the tables
\* C23: every stored comparison holds 2 or 3 products, a save-comparison
\* request with fewer than 2 or more than 3 products storing nothing, so that
\* get_history and get_journey can load every stored comparison.
C23_ComparisonSize ==
    /\ \A i \in DOMAIN comparisons :
            /\ Len(comparisons[i].products) \in 2..3
            /\ ComparisonLoads(comparisons[i])
    /\ (res.op = "save_comparison" /\ Len(res.products) \notin 2..3)
            => res.comparison_id = 0

\* the rows a table held are still its first rows, unchanged
KeepsRows(old, new) ==
    /\ Len(new) >= Len(old)
    /\ SubSeq(new, 1, Len(old)) = old

\* C24: history is append-only. Whatever operation runs (register, login,
\* get_or_create_user, save_analysis, save_comparison, get_history,
\* get_journey), every history entry and comparison that existed before it
\* exists after it with the same id, user_id, timestamp and payload, and no
\* user row is removed.
C24_AppendOnly ==
    [][/\ KeepsRows(history, history')
       /\ KeepsRows(comparisons, comparisons')
       /\ \A i \in DOMAIN users :
            i \in DOMAIN users' /\ users'[i].id = users[i].id]_vars

\* a user with a stored entry and a stored comparison logged in again
C24_Witness ==
    /\ res.op = "login_user"
    /\ res.ok
    /\ \E i \in DOMAIN history : history[i].user_id = res.user
    /\ \E i \in DOMAIN comparisons : comparisons[i].user_id = res.user

\* --------------------------------------------- claims on storage failures
\* the results register_user and login_user give for a request they refuse
\* by a rule of the service
BusinessRejections ==
    {"Email already registered", "Password must be at least 6 characters",
     "Invalid email or password"}

\* C25: a storage failure during register_user or login_user reaches the
\* caller as an error of the call, never as the (False, message, None) result
\* used for a duplicate email, a weak password and invalid credentials: every
\* (False, message, None) result carries one of the three rejections.
C25_StorageFailureDistinct ==
    (res.op \in {"register_user", "login_user"} /\ ~res.ok)
    => res.message \in BusinessRejections

\* ------------------------------------------------- claims on the sessions
\* the calls that hold a database session
OpenHandles == {p \in Procs : loc[p] # NoLoc}

ReadOperations ==
    {"get_user_by_token", "is_authenticated_user", "get_history", "get_journey"}

\* C27: get_user_by_token, is_authenticated_user, get_history and
\* get_journey leave the three tables as they are, for every token and every
\* store: no row is created, changed (last_active and token_hash included) or
\* removed, so that a read repeated between two writes changes nothing a
\* later operation returns.
C27_ReadsChangeNothing ==
    [][res'.op \in ReadOperations
        => /\ users' = users
           /\ history' = history
           /\ comparisons' = comparisons]_vars

\* the token of a user was resolved at a time later than the user's
\* last_active, with entries of both users in the store
C27_Witness ==
    /\ res.op = "get_user_by_token"
    /\ res.user # NoUserId
    /\ Row(users, res.user).last_active < clock
    /\ \E i \in DOMAIN history : history[i].user_id = res.user
    /\ \E i \in DOMAIN history : history[i].user_id # res.user

\* ------------------------------------------------- claims on isolation
\* the rows of a table recorded for a user
RecordedBy(rows, user_id) == SelectSeq(rows, LAMBDA r : r.user_id = user_id)

\* everything get_history and get_journey answer to a token
View(urows, hrows, crows, token) ==
    [history |-> [f \in HistoryFilterInputs |->
                    get_history(urows, hrows, crows, token, f)],
     journey |-> get_journey(urows, hrows, crows, token)]

C29_NoRowForAuthToken ==
    /\ \A i \in DOMAIN users :
            users[i].is_anonymous
            => \A t \in tokens :
                    users[i].token_hash = hash_token_for_storage(t)
                    => t.prefix = "anon"
    /\ (res.op = "get_or_create_user" /\ res.token \in tokens
            /\ res.token.prefix = "auth" /\ res.raised = "none")
            => res.user = validate_auth_token(res.token)

\* C30: register_user calls with distinct unused emails and valid passwords
\* all succeed however they interleave, one stopping between its insert and
\* its token-hash update included: a call is refused only for a short
\* password or for an email that a row holds, never because of the row of
\* another registration.
C30_ConcurrentRegistersSucceed ==
    (res.op = "register_user" /\ ~res.ok /\ Len(res.password) >= MIN_PASSWORD_LENGTH)
    => \E i \in DOMAIN users : users[i].email = Lower(res.email)

====
